---------------------------- MODULE Spec2Model ----------------------------
(***************************************************************************)
(* The callback handler of the authentication server (the default export   *)
(* of the callback route) and the Discourse SSO pieces it relies on.        *)
(*                                                                          *)
(* JavaScript values that the handler compares with each other are all      *)
(* modelled as sequences of integers so that any two of them can be         *)
(* compared: a string is the sequence of its code units (>= 0), and the     *)
(* values that are no strings start with a negative tag.                    *)
(***************************************************************************)
EXTENDS Integers, Sequences, FiniteSets, TLC

(***************************************************************************)
(* Characters and strings                                                  *)
(***************************************************************************)

\* The printable ASCII characters, code 32 first. Three characters that the
\* string syntax cannot hold are named instead.
AsciiChars ==
    << " ", "!", "DQUOTE", "#", "$", "%", "&", "'", "(", ")", "*", "+", ",", "-", ".", "/",
       "0", "1", "2", "3", "4", "5", "6", "7", "8", "9", ":", ";", "<", "=", ">", "?",
       "@", "A", "B", "C", "D", "E", "F", "G", "H", "I", "J", "K", "L", "M", "N", "O",
       "P", "Q", "R", "S", "T", "U", "V", "W", "X", "Y", "Z", "[", "BSLASH", "]", "^", "_",
       "BTICK", "a", "b", "c", "d", "e", "f", "g", "h", "i", "j", "k", "l", "m", "n", "o",
       "p", "q", "r", "s", "t", "u", "v", "w", "x", "y", "z", "{", "|", "}", "~" >>

Ord(c) ==
    31 + (CHOOSE i \in 1..Len(AsciiChars) : AsciiChars[i] = c)

\* The string whose characters are cs.
Lit(cs) ==
    [i \in 1..Len(cs) |-> Ord(cs[i])]

\* undefined
Undefined ==
    <<-1>>

\* An array of strings (what querystring.parse gives for a repeated key).
RECURSIVE ArrayOf(_)
ArrayOf(vals) ==
    IF vals = <<>> THEN <<-5>> ELSE <<-5>> \o Head(vals) \o ArrayOf(Tail(vals))

IsString(v) ==
    \A i \in 1..Len(v) : v[i] >= 0

\* !v is false
Truthy(v) ==
    v # Undefined /\ v # <<>>

\* The replacement character a utf8 decoder gives for a byte that is no text.
ReplacementChar ==
    65533

(***************************************************************************)
(* crypto.createHmac('sha256', key).update(data).digest('hex'): a digest    *)
(* is a non-empty string that is equal to another digest only when key and  *)
(* data are equal.                                                          *)
(***************************************************************************)
Hmac(key, data) ==
    <<-2>> \o key \o <<-3>> \o data

(***************************************************************************)
(* Buffer.from(s, 'base64') and Buffer.toString                             *)
(***************************************************************************)
unbase64(c) ==
    IF c >= 65 /\ c <= 90 THEN c - 65
    ELSE IF c >= 97 /\ c <= 122 THEN c - 71
    ELSE IF c >= 48 /\ c <= 57 THEN c + 4
    ELSE IF c = 43 \/ c = 45 THEN 62
    ELSE IF c = 47 \/ c = 95 THEN 63
    ELSE 64

\* The indexes of s, in order.
Indexes(s) ==
    [i \in 1..Len(s) |-> i]

\* The decoder skips every character that is no base64 character, and stops
\* at the first "=".
Sextets(s) ==
    LET stop == IF \E i \in 1..Len(s) : s[i] = 61
                  THEN CHOOSE i \in 1..Len(s) :
                           s[i] = 61 /\ \A k \in 1..(i - 1) : s[k] # 61
                  ELSE Len(s) + 1
        Legal(c) == unbase64(c) < 64
        kept == SelectSeq(SubSeq(s, 1, stop - 1), Legal)
    IN  [i \in 1..Len(kept) |-> unbase64(kept[i])]

\* Four sextets are three bytes; a last group of two or three sextets is one
\* or two bytes, a last group of one sextet is none.
SextetsToBytes(q) ==
    LET rest == Len(q) % 4
        n == 3 * (Len(q) \div 4) + (IF rest < 2 THEN 0 ELSE rest - 1)
        At(i) ==
            LET g == 4 * ((i - 1) \div 3)
                k == (i - 1) % 3
            IN  IF k = 0 THEN q[g + 1] * 4 + (q[g + 2] \div 16)
                ELSE IF k = 1 THEN (q[g + 2] % 16) * 16 + (q[g + 3] \div 4)
                ELSE (q[g + 3] % 4) * 64 + q[g + 4]
    IN  [i \in 1..n |-> At(i)]

BufferFromBase64(s) ==
    SextetsToBytes(Sextets(s))

\* b.toString('utf8'), for bytes that are ASCII or no text at all.
BufferToUtf8(b) ==
    [i \in 1..Len(b) |-> IF b[i] < 128 THEN b[i] ELSE ReplacementChar]

base64char(v) ==
    IF v < 26 THEN v + 65
    ELSE IF v < 52 THEN v + 71
    ELSE IF v < 62 THEN v - 4
    ELSE IF v = 62 THEN 43
    ELSE 47

\* Buffer.from(s).toString('base64'), for an ASCII string s: three bytes are
\* four characters, and "=" fills the last group.
BufferToBase64(b) ==
    LET n == 4 * ((Len(b) + 2) \div 3)
        Byte(i) == IF i <= Len(b) THEN b[i] ELSE 0
        At(j) ==
            LET g == 3 * ((j - 1) \div 4)
                k == (j - 1) % 4
            IN  IF k = 0 THEN base64char(Byte(g + 1) \div 4)
                ELSE IF k = 1
                  THEN base64char((Byte(g + 1) % 4) * 16 + (Byte(g + 2) \div 16))
                ELSE IF g + 2 > Len(b) THEN 61
                ELSE IF k = 2
                  THEN base64char((Byte(g + 2) % 16) * 4 + (Byte(g + 3) \div 64))
                ELSE IF g + 3 > Len(b) THEN 61
                ELSE base64char(Byte(g + 3) % 64)
    IN  [j \in 1..n |-> At(j)]

(***************************************************************************)
(* decodeURIComponent, encodeURIComponent and querystring.parse            *)
(***************************************************************************)
HexVal(c) ==
    IF c >= 48 /\ c <= 57 THEN c - 48
    ELSE IF c >= 65 /\ c <= 70 THEN c - 55
    ELSE IF c >= 97 /\ c <= 102 THEN c - 87
    ELSE -1

\* A percent escape starts at i: "%" and two hex digits.
IsEscape(s, i) ==
    /\ i >= 1
    /\ i + 2 <= Len(s)
    /\ s[i] = 37
    /\ HexVal(s[i + 1]) >= 0
    /\ HexVal(s[i + 2]) >= 0

EscapeByte(s, i) ==
    16 * HexVal(s[i + 1]) + HexVal(s[i + 2])

\* s with each percent escape replaced by the character it stands for (the
\* replacement character for a byte that is no ASCII character).
Unescaped(s) ==
    LET InEscape(i) == IsEscape(s, i - 1) \/ IsEscape(s, i - 2)
        Starts(i) == ~InEscape(i)
        at == SelectSeq(Indexes(s), Starts)
    IN  [k \in 1..Len(at) |->
            IF IsEscape(s, at[k])
              THEN IF EscapeByte(s, at[k]) < 128 THEN EscapeByte(s, at[k])
                   ELSE ReplacementChar
              ELSE s[at[k]]]

\* The URIError decodeURIComponent throws.
URIError ==
    <<-4>>

\* decodeURIComponent(s): URIError for a "%" that starts no escape, and for an
\* escape of a byte that is no ASCII character (such a byte is text only as
\* part of a well-formed utf8 sequence, which no modelled input holds).
decodeURIComponent(s) ==
    IF \E i \in 1..Len(s) :
           s[i] = 37 /\ ~(IsEscape(s, i) /\ EscapeByte(s, i) < 128)
      THEN URIError
      ELSE Unescaped(s)

\* querystring.unescape, after "+" has become a space: it never throws, a "%"
\* that starts no escape stays.
qsUnescape(s) ==
    Unescaped([i \in 1..Len(s) |-> IF s[i] = 43 THEN 32 ELSE s[i]])

\* s cut at every sep.
RECURSIVE Split(_, _)
Split(s, sep) ==
    IF \A i \in 1..Len(s) : s[i] # sep THEN <<s>>
    ELSE LET i == CHOOSE j \in 1..Len(s) :
                     s[j] = sep /\ \A k \in 1..(j - 1) : s[k] # sep
         IN  <<SubSeq(s, 1, i - 1)>> \o Split(SubSeq(s, i + 1, Len(s)), sep)

\* One "key=value" piece of a query string as <<key, value>>.
qsPair(piece) ==
    IF \A i \in 1..Len(piece) : piece[i] # 61 THEN <<qsUnescape(piece), <<>>>>
    ELSE LET i == CHOOSE j \in 1..Len(piece) :
                     piece[j] = 61 /\ \A k \in 1..(j - 1) : piece[k] # 61
         IN  << qsUnescape(SubSeq(piece, 1, i - 1)),
                qsUnescape(SubSeq(piece, i + 1, Len(piece))) >>

RECURSIVE qsValues(_, _)
qsValues(pieces, key) ==
    IF pieces = <<>> THEN <<>>
    ELSE IF Head(pieces) # <<>> /\ qsPair(Head(pieces))[1] = key
      THEN <<qsPair(Head(pieces))[2]>> \o qsValues(Tail(pieces), key)
    ELSE qsValues(Tail(pieces), key)

\* The property `key` of querystring.parse(s): undefined when no piece has the
\* key, a string for one piece, an array for several.
qsGet(s, key) ==
    LET vals == qsValues(Split(s, 38), key)
    IN  IF vals = <<>> THEN Undefined
        ELSE IF Len(vals) = 1 THEN vals[1]
        ELSE ArrayOf(vals)

HexDigit(v) ==
    IF v < 10 THEN v + 48 ELSE v + 55

IsUnreserved(c) ==
    \/ c >= 65 /\ c <= 90
    \/ c >= 97 /\ c <= 122
    \/ c >= 48 /\ c <= 57
    \/ c \in {45, 95, 46, 33, 126, 42, 39, 40, 41}

\* The strings of a sequence, one after the other.
RECURSIVE Concat(_)
Concat(ss) ==
    IF ss = <<>> THEN <<>>
    ELSE IF Len(ss) = 1 THEN ss[1]
    ELSE Concat(SubSeq(ss, 1, Len(ss) \div 2))
             \o Concat(SubSeq(ss, Len(ss) \div 2 + 1, Len(ss)))

\* encodeURIComponent(s), for an ASCII string s.
encodeURIComponent(s) ==
    Concat([i \in 1..Len(s) |->
               IF IsUnreserved(s[i]) THEN <<s[i]>>
               ELSE <<37, HexDigit(s[i] \div 16), HexDigit(s[i] % 16)>>])

(***************************************************************************)
(* The inputs: the configuration and the requests                          *)
(***************************************************************************)

\* provider.secret of the Discourse provider, and a key that is not it.
Secret ==
    Lit(<<"s","3","c","r","e","t">>)

OtherKey ==
    Lit(<<"k">>)

\* The names of the properties the handler reads from the parsed payload.
kNonce ==
    Lit(<<"n","o","n","c","e">>)

kExternalId ==
    Lit(<<"e","x","t","e","r","n","a","l","_","i","d">>)

kEmail ==
    Lit(<<"e","m","a","i","l">>)

kUsername ==
    Lit(<<"u","s","e","r","n","a","m","e">>)

kName ==
    Lit(<<"n","a","m","e">>)

kAvatarUrl ==
    Lit(<<"a","v","a","t","a","r","_","u","r","l">>)

kAdmin ==
    Lit(<<"a","d","m","i","n">>)

kModerator ==
    Lit(<<"m","o","d","e","r","a","t","o","r">>)

sTrue ==
    Lit(<<"t","r","u","e">>)

\* The nonce of the initiation the modelled payloads answer.
Nonce1 ==
    Lit(<<"a","b","c","1","2","3">>)

\* Payloads Discourse may sign: a complete one, one with no nonce, one with an
\* empty nonce, one with no username, one with two nonces.
PayloadFull ==
    Lit(<<"n","o","n","c","e","=","a","b","c","1","2","3","&","e","x","t","e","r","n","a","l","_","i","d","=","4","2","&","a","d","m","i","n","=","t","r","u","e","&","e","m","a","i","l","=","a","%","4","0","b",".","c","o","m","&","u","s","e","r","n","a","m","e","=","a","n","n">>)

PayloadNoNonce ==
    Lit(<<"e","x","t","e","r","n","a","l","_","i","d","=","4","2","&","e","m","a","i","l","=","a","%","4","0","b",".","c","o","m","&","u","s","e","r","n","a","m","e","=","a","n","n">>)

PayloadEmptyNonce ==
    Lit(<<"n","o","n","c","e","=","&","e","x","t","e","r","n","a","l","_","i","d","=","4","2","&","e","m","a","i","l","=","a","%","4","0","b",".","c","o","m","&","u","s","e","r","n","a","m","e","=","a","n","n">>)

PayloadNoUsername ==
    Lit(<<"n","o","n","c","e","=","a","b","c","1","2","3","&","e","x","t","e","r","n","a","l","_","i","d","=","4","2","&","e","m","a","i","l","=","a","%","4","0","b",".","c","o","m">>)

PayloadTwoNonces ==
    Lit(<<"n","o","n","c","e","=","a","b","c","1","2","3","&","n","o","n","c","e","=","a","b","c","1","2","3","&","e","x","t","e","r","n","a","l","_","i","d","=","4","2","&","e","m","a","i","l","=","a","%","4","0","b",".","c","o","m","&","u","s","e","r","n","a","m","e","=","a","n","n">>)

\* s with the character at i written as a percent escape.
EscapeAt(s, i) ==
    SubSeq(s, 1, i - 1)
        \o <<37, HexDigit(s[i] \div 16), HexDigit(s[i] % 16)>>
        \o SubSeq(s, i + 1, Len(s))

\* The sso query parameters a client may present: none, the base64 of each
\* payload, the base64 of the complete payload with one character percent
\* escaped once more, and a string with a malformed escape.
SsoFull ==
    BufferToBase64(PayloadFull)

SsoEscaped ==
    EscapeAt(SsoFull, Len(SsoFull) - 1)

SsoMalformed ==
    Lit(<<"%","z","z">>)

SsoValues ==
    { Undefined, SsoFull, BufferToBase64(PayloadNoNonce),
      BufferToBase64(PayloadEmptyNonce), BufferToBase64(PayloadNoUsername),
      BufferToBase64(PayloadTwoNonces), SsoEscaped, SsoMalformed }

\* The sig query parameters presented with sso: none, the signature the
\* Discourse server gives the string that sso url-decodes to, and a signature
\* made with another key.
SigValues(sso) ==
    { Undefined, Hmac(OtherKey, sso) }
        \cup IF sso # Undefined /\ decodeURIComponent(sso) # URIError
               THEN { Hmac(Secret, decodeURIComponent(sso)) }
               ELSE {}

\* The values of the nonce cookie a client may present: none, empty, the
\* binding of the nonce, the binding of the empty nonce, another binding.
CookieValues ==
    { Undefined, <<>>, Hmac(Secret, Nonce1), Hmac(Secret, <<>>),
      Hmac(Secret, Lit(<<"f","f","f","f">>)) }

ProviderTypes ==
    { "discourse", "oauth", "email", "credentials", "saml" }

Methods ==
    { "GET", "POST" }

\* provider.id of a credentials provider.
ProviderIds ==
    { Lit(<<"c","r","e","d","e","n","t","i","a","l","s">>), Lit(<<"m","y"," ","l","d","a","p">>) }

Emails ==
    { "ann@example.com" }

Tokens ==
    { "t1", "t2" }

NoId ==
    <<>>

\* A request as the handler reads it, with the options that are the
\* request's own (the provider it names, the verified callbackUrl).
Request(type, method, callbackUrl, sso, sig, hasCookies, cookie, email, token, authorize, id) ==
    [ type |-> type, method |-> method, callbackUrl |-> callbackUrl,
      sso |-> sso, sig |-> sig, hasCookies |-> hasCookies,
      cookieNonceHash |-> cookie, email |-> email, token |-> token,
      authorize |-> authorize, providerId |-> id ]

NoRequest ==
    Request("none", "GET", FALSE, Undefined, Undefined, FALSE, Undefined,
            "", "", FALSE, NoId)

DiscourseRequests ==
    UNION { { Request("discourse", m, cb, sso, sig, hc, ck, "", "", FALSE, NoId) :
                m \in Methods, cb \in BOOLEAN, sig \in SigValues(sso),
                ck \in IF hc THEN CookieValues ELSE {Undefined} } :
            sso \in SsoValues, hc \in BOOLEAN }

Requests ==
    DiscourseRequests
    \cup { Request("oauth", m, cb, Undefined, Undefined, TRUE, Undefined, "", "",
                   FALSE, NoId) : m \in Methods, cb \in BOOLEAN }
    \cup { Request("saml", m, cb, Undefined, Undefined, TRUE, Undefined, "", "",
                   FALSE, NoId) : m \in Methods, cb \in BOOLEAN }
    \cup { Request("email", m, cb, Undefined, Undefined, TRUE, Undefined, e, t,
                   FALSE, NoId) :
             m \in Methods, cb \in BOOLEAN, e \in Emails, t \in Tokens }
    \cup { Request("credentials", m, cb, Undefined, Undefined, TRUE, Undefined,
                   "", "", a, id) :
             m \in Methods, cb \in BOOLEAN, a \in BOOLEAN, id \in ProviderIds }

\* The process-wide options the handler reads.
Options ==
    [ useJwtSession : BOOLEAN, adapter : BOOLEAN, newUser : BOOLEAN ]

\* The handler runs once per request; the requests in flight.
Reqs ==
    { 1, 2 }

(***************************************************************************)
(* The state                                                               *)
(***************************************************************************)
VARIABLES
    options,    \* the process-wide options
    db,         \* the adapter's pending verification requests, <<email, token>>
    req,        \* the request of each run of the handler
    pc,         \* where each run is: the call it awaits, or how it ended
    res,        \* the response of each run
    doneCalls,  \* how often each run has called done()
    log,        \* the calls each run has made and what they settled to, in order
    loc,        \* the handler's local variables of each run
    initiation  \* what the SSO initiation was given and has made, for each run

vars ==
    << options, db, req, pc, res, doneCalls, log, loc, initiation >>

\* The Location header, unset.
NoLocation ==
    [ page |-> "", error |-> "", provider |-> NoId ]

\* `${baseUrl}/error?error=${code}`
ErrorPage(code) ==
    [ page |-> "error", error |-> code, provider |-> NoId ]

\* `${baseUrl}/error?error=CredentialsSignin&provider=${encodeURIComponent(provider.id)}`
CredentialsSigninPage(id) ==
    [ page |-> "error", error |-> "CredentialsSignin",
      provider |-> encodeURIComponent(id) ]

\* `${baseUrl}/signin`
SigninPage ==
    [ page |-> "signin", error |-> "", provider |-> NoId ]

\* pages.newUser
NewUserPage ==
    [ page |-> "newUser", error |-> "", provider |-> NoId ]

\* callbackUrl
CallbackUrlPage ==
    [ page |-> "callbackUrl", error |-> "", provider |-> NoId ]

\* site
SitePage ==
    [ page |-> "site", error |-> "", provider |-> NoId ]

\* cookie.set(res, cookies.nonceHash.name, "", {maxAge: -1, ...})
ClearNonceCookie ==
    [ name |-> "nonceHash", value |-> "", maxAge |-> "-1", expires |-> "" ]

\* cookie.set(res, cookies.sessionToken.name, newEncodedJwt, {expires: cookieExpires, ...})
JwtCookie ==
    [ name |-> "sessionToken", value |-> "newEncodedJwt", maxAge |-> "",
      expires |-> "now+sessionMaxAge" ]

\* cookie.set(res, cookies.sessionToken.name, session.sessionToken, {expires: session.expires || null, ...})
SessionCookie ==
    [ name |-> "sessionToken", value |-> "session.sessionToken", maxAge |-> "",
      expires |-> "session.expires" ]

NoResponse ==
    [ status |-> 0, location |-> NoLocation, ended |-> FALSE, cookies |-> <<>> ]

NoProfile ==
    [ email |-> Undefined, name |-> Undefined, image |-> Undefined,
      username |-> Undefined, id |-> Undefined, admin |-> FALSE,
      moderator |-> FALSE ]

\* The locals of the handler that the model keeps, before the handler has
\* set any; error is the name of what a catch block has caught, or of what
\* has rejected the handler's promise.
NoLocals ==
    [ decoded_sso |-> Undefined, hash |-> Undefined, inner_qstring |-> Undefined,
      nonce |-> Undefined, nonceHash |-> Undefined,
      cookieNonceHash |-> Undefined, profile |-> NoProfile, isNewUser |-> FALSE,
      error |-> "" ]

\* The SSO initiation of a provider { callbackUrl, secret, url }, before it
\* has made anything.
NoInitiation ==
    [ secret |-> Undefined, callbackUrl |-> Undefined, nonce |-> Undefined,
      payload_b64 |-> Undefined, hex_sig |-> Undefined,
      urlenc_payload_b64 |-> Undefined, nonceHash |-> Undefined ]

\* What a collaborator may throw or reject with: an error of one of these
\* names, or a value that is no object (null, undefined).
ErrorNames ==
    { "AccountNotLinkedError", "CreateUserError", "Error", "nullish" }

\* What callbacks.signin may resolve to.
SigninResponses ==
    { "true", "false", "undefined" }

TypeOK ==
    /\ options \in Options
    /\ db \subseteq (Emails \X Tokens)
    /\ \A r \in Reqs :
        /\ req[r] \in Requests \cup {NoRequest}
        /\ pc[r] \in { "none", "start", "oauth", "getAdapter",
                       "getVerificationRequest", "deleteVerificationRequest",
                       "getUserByEmail", "authorize", "signin", "callbackHandler",
                       "jwt", "encode", "dispatch", "done", "rejected",
                       "initiate", "redirected" }
        /\ res[r].status \in {0, 302, 500}
        /\ doneCalls[r] \in Nat

(***************************************************************************)
(* Steps of a run: from the settling of the call the run awaits to the     *)
(* next call it awaits, or to its end.                                      *)
(***************************************************************************)

\* The run goes on to await (or ends without a response, at == "rejected":
\* the handler's promise is rejected, nothing catches it).
Goto(r, at, events, cookies, locals) ==
    /\ pc' = [pc EXCEPT ![r] = at]
    /\ log' = [log EXCEPT ![r] = @ \o events]
    /\ res' = [res EXCEPT ![r].cookies = @ \o cookies]
    /\ loc' = [loc EXCEPT ![r] = locals]
    /\ UNCHANGED << options, req, doneCalls, initiation >>

\* res.status(status).setHeader('Location', location); res.end(); return done()
Respond(r, status, location, events, cookies, locals) ==
    /\ pc' = [pc EXCEPT ![r] = "done"]
    /\ log' = [log EXCEPT ![r] = @ \o events]
    /\ res' = [res EXCEPT ![r] =
                 [ status |-> status, location |-> location, ended |-> TRUE,
                   cookies |-> res[r].cookies \o cookies ]]
    /\ doneCalls' = [doneCalls EXCEPT ![r] = @ + 1]
    /\ loc' = [loc EXCEPT ![r] = locals]
    /\ UNCHANGED << options, req, initiation >>

\* The catch block of the OAuth branch.
OAuthCatchCode(name) ==
    IF name = "AccountNotLinkedError" THEN "OAuthAccountNotLinked"
    ELSE IF name = "CreateUserError" THEN "OAuthCreateAccount"
    ELSE "Callback"

\* The catch block of the email branch.
EmailCatchCode(name) ==
    IF name = "CreateUserError" THEN "EmailCreateAccount" ELSE "Callback"

\* A call the run awaited throws (or rejects with) e. The OAuth and email
\* branches catch it and read error.name, which throws in its turn when e is
\* no object; the Discourse and credentials branches have no catch block
\* around these calls.
Throw(r, e, events) ==
    IF req[r].type \in {"oauth", "email"} /\ e # "nullish"
      THEN Respond(r, 302,
                   ErrorPage(IF req[r].type = "oauth" THEN OAuthCatchCode(e)
                             ELSE EmailCatchCode(e)),
                   events \o (IF req[r].type = "oauth" /\ OAuthCatchCode(e) # "Callback"
                                THEN <<>>
                              ELSE IF req[r].type = "email"
                                      /\ EmailCatchCode(e) # "Callback"
                                THEN <<>>
                              ELSE <<"logger.error">>),
                   <<>>, [loc[r] EXCEPT !.error = e])
      ELSE Goto(r, "rejected", events, <<>>, [loc[r] EXCEPT !.error = e])

(***************************************************************************)
(* The Discourse branch, up to its first await                             *)
(***************************************************************************)

\* !sso || !sig
MissingQuery(sso, sig) ==
    ~Truthy(sso) \/ ~Truthy(sig)

\* A signature check that lets every signature pass.
SigMismatch_Never(sig, hash) ==
    FALSE

\* sig != hash
SigMismatch(sig, hash) ==
    sig # hash

\* The string Buffer.from(sso, 'base64') decodes: sso as the request gave it,
\* not decoded_sso.
Base64Input(sso, decoded_sso) ==
    sso

\* hmac.update(data) throws a TypeError for data that is no string.
HmacUpdateThrows(data) ==
    ~IsString(data)

\* cookieNonceHash != nonceHash || !nonceHash || !cookieNonceHash
NonceCheckFails(cookieNonceHash, nonceHash) ==
    cookieNonceHash # nonceHash \/ ~Truthy(nonceHash) \/ ~Truthy(cookieNonceHash)

\* !ret.external_id || !ret.email || !ret.username
MissingProperty(external_id, email, username) ==
    ~Truthy(external_id) \/ ~Truthy(email) \/ ~Truthy(username)

\* The profile the handler builds from the parsed payload.
DiscourseProfile(qs) ==
    [ email |-> qsGet(qs, kEmail),
      name |-> IF Truthy(qsGet(qs, kName)) THEN qsGet(qs, kName)
               ELSE qsGet(qs, kUsername),
      image |-> IF Truthy(qsGet(qs, kAvatarUrl)) THEN qsGet(qs, kAvatarUrl)
                ELSE <<>>,
      username |-> qsGet(qs, kUsername),
      id |-> qsGet(qs, kExternalId),
      admin |-> qsGet(qs, kAdmin) = sTrue,
      moderator |-> qsGet(qs, kModerator) = sTrue ]

Discourse(r) ==
    /\ pc[r] = "start"
    /\ req[r].type = "discourse"
    /\ UNCHANGED db
    /\ LET sso == req[r].sso
           sig == req[r].sig
           decoded_sso == decodeURIComponent(sso)
           hash == Hmac(Secret, decoded_sso)
           inner_qstring ==
               BufferToUtf8(BufferFromBase64(Base64Input(sso, decoded_sso)))
           nonce == qsGet(inner_qstring, kNonce)
           nonceHash == Hmac(Secret, nonce)
           cookieNonceHash == req[r].cookieNonceHash
           checked == [loc[r] EXCEPT !.decoded_sso = decoded_sso, !.hash = hash]
           parsed == [checked EXCEPT !.inner_qstring = inner_qstring,
                                     !.nonce = nonce]
           hashed == [parsed EXCEPT !.nonceHash = nonceHash]
           read == [hashed EXCEPT !.cookieNonceHash = cookieNonceHash]
           failed == <<"logger.error">>
       IN  IF MissingQuery(sso, sig)
             THEN Respond(r, 302, ErrorPage("oAuthCallback"), failed, <<>>, loc[r])
           ELSE IF decoded_sso = URIError
             THEN Goto(r, "rejected", <<>>, <<>>, loc[r])
           ELSE IF SigMismatch(sig, hash)
             THEN Respond(r, 302, ErrorPage("oAuthCallback"), failed, <<>>, checked)
           ELSE IF HmacUpdateThrows(nonce)
             THEN Goto(r, "rejected", <<>>, <<>>, parsed)
           ELSE IF ~req[r].hasCookies
             THEN Goto(r, "rejected", <<>>, <<>>, hashed)
           ELSE IF NonceCheckFails(cookieNonceHash, nonceHash)
             THEN Respond(r, 302, ErrorPage("oAuthCallback"),
                          <<"cookie.set:nonceHash">> \o failed,
                          <<ClearNonceCookie>>, read)
           ELSE IF MissingProperty(qsGet(inner_qstring, kExternalId),
                                   qsGet(inner_qstring, kEmail),
                                   qsGet(inner_qstring, kUsername))
             THEN Respond(r, 302, ErrorPage("oAuthCallback"),
                          <<"cookie.set:nonceHash">> \o failed,
                          <<ClearNonceCookie>>, read)
           ELSE Goto(r, "signin", <<"cookie.set:nonceHash", "callbacks.signin">>,
                     <<ClearNonceCookie>>,
                     [read EXCEPT !.profile = DiscourseProfile(inner_qstring)])

(***************************************************************************)
(* The OAuth branch                                                        *)
(***************************************************************************)

\* oAuthCallback(req, provider, callback): it throws, or it will call back.
OAuth(r) ==
    /\ pc[r] = "start"
    /\ req[r].type = "oauth"
    /\ UNCHANGED db
    /\ \/ Respond(r, 302, ErrorPage("Callback"),
                  <<"oAuthCallback", "oAuthCallback=>throw", "logger.error">>,
                  <<>>, loc[r])
       \/ Goto(r, "oauth", <<"oAuthCallback">>, <<>>, loc[r])

\* The two redirects taken for each other.
OAuthFailurePage_Swapped(outcome) ==
    IF outcome = "error" THEN SigninPage ELSE ErrorPage("oAuthCallback")

\* The redirect for what oAuthCallback calls back with, when it is not a
\* profile: if (error) ..., if (!profile) ...
OAuthFailurePage(outcome) ==
    IF outcome = "error" THEN ErrorPage("oAuthCallback") ELSE SigninPage

\* oAuthCallback calls back with an error, with no profile or with a profile.
OAuthCallback(r) ==
    /\ pc[r] = "oauth"
    /\ UNCHANGED db
    /\ \/ Respond(r, 302, OAuthFailurePage("error"),
                  <<"oAuthCallback=>error", "logger.error">>, <<>>, loc[r])
       \/ Respond(r, 302, OAuthFailurePage("noprofile"),
                  <<"oAuthCallback=>noprofile">>, <<>>, loc[r])
       \/ Goto(r, "signin", <<"oAuthCallback=>profile", "callbacks.signin">>,
               <<>>, loc[r])

(***************************************************************************)
(* The email branch                                                        *)
(***************************************************************************)

\* The adapter's getVerificationRequest: the pending request, or null.
getVerificationRequest(requests, email, token) ==
    IF <<email, token>> \in requests THEN "record" ELSE "null"

\* The adapter's deleteVerificationRequest.
deleteVerificationRequest(requests, email, token) ==
    requests \ { <<email, token>> }

Email(r) ==
    /\ pc[r] = "start"
    /\ req[r].type = "email"
    /\ UNCHANGED db
    /\ IF ~options.adapter
         THEN Respond(r, 302, ErrorPage("Configuration"), <<"logger.error">>,
                      <<>>, loc[r])
         ELSE Goto(r, "getAdapter", <<"adapter.getAdapter">>, <<>>, loc[r])

GetAdapterSettles(r) ==
    /\ pc[r] = "getAdapter"
    /\ UNCHANGED db
    /\ \/ Goto(r, "getVerificationRequest",
               <<"getAdapter=>ok", "getVerificationRequest">>, <<>>, loc[r])
       \/ \E e \in ErrorNames : Throw(r, e, <<"getAdapter=>throw">>)

\* A check of the invite that is the wrong way round.
NoInvite_Inverted(invite) ==
    invite # "null"

\* !invite
NoInvite(invite) ==
    invite = "null"

GetVerificationRequestSettles(r) ==
    /\ pc[r] = "getVerificationRequest"
    /\ UNCHANGED db
    /\ \/ LET invite == getVerificationRequest(db, req[r].email, req[r].token)
              settled == IF invite = "null" THEN "getVerificationRequest=>null"
                         ELSE "getVerificationRequest=>record"
          IN  IF NoInvite(invite)
                THEN Respond(r, 302, ErrorPage("Verification"), <<settled>>,
                             <<>>, loc[r])
                ELSE Goto(r, "deleteVerificationRequest",
                          <<settled, "deleteVerificationRequest">>, <<>>,
                          loc[r])
       \/ \E e \in ErrorNames : Throw(r, e, <<"getVerificationRequest=>throw">>)

DeleteVerificationRequestSettles(r) ==
    /\ pc[r] = "deleteVerificationRequest"
    /\ \/ /\ db' = deleteVerificationRequest(db, req[r].email, req[r].token)
          /\ Goto(r, "getUserByEmail",
                  <<"deleteVerificationRequest=>ok", "getUserByEmail">>,
                  <<>>, loc[r])
       \/ /\ UNCHANGED db
          /\ \E e \in ErrorNames :
               Throw(r, e, <<"deleteVerificationRequest=>throw">>)

\* getUserByEmail gives the user or null; either way there is a profile.
GetUserByEmailSettles(r) ==
    /\ pc[r] = "getUserByEmail"
    /\ UNCHANGED db
    /\ \/ \E found \in { "getUserByEmail=>user", "getUserByEmail=>null" } :
            Goto(r, "signin", <<found, "callbacks.signin">>, <<>>, loc[r])
       \/ \E e \in ErrorNames : Throw(r, e, <<"getUserByEmail=>throw">>)

(***************************************************************************)
(* The credentials branch                                                  *)
(***************************************************************************)

\* The condition of the branch: type === 'credentials' && req.method === 'POST'
IsCredentialsBranch(type, method) ==
    type = "credentials" /\ method = "POST"

\* Which of the two checks before provider.authorize fails, if any.
CredentialsPrecondition(useJwtSession, authorize) ==
    IF ~useJwtSession THEN "CALLBACK_CREDENTIALS_JWT_ERROR"
    ELSE IF ~authorize THEN "CALLBACK_CREDENTIALS_HANDLER_ERROR"
    ELSE "ok"

Credentials(r) ==
    /\ pc[r] = "start"
    /\ IsCredentialsBranch(req[r].type, req[r].method)
    /\ UNCHANGED db
    /\ LET failed ==
               CredentialsPrecondition(options.useJwtSession, req[r].authorize)
       IN  IF failed # "ok"
             THEN Respond(r, 302, ErrorPage("Configuration"),
                          <<"logger.error", failed>>, <<>>, loc[r])
             ELSE Goto(r, "authorize", <<"provider.authorize">>, <<>>, loc[r])

\* The two redirects taken for each other.
AuthorizeFailurePage_Swapped(outcome, id) ==
    IF outcome = "throw" THEN CredentialsSigninPage(id)
    ELSE ErrorPage("Configuration")

\* The redirect for what provider.authorize settled to, when it is not a user.
AuthorizeFailurePage(outcome, id) ==
    IF outcome = "throw" THEN ErrorPage("Configuration")
    ELSE CredentialsSigninPage(id)

AuthorizeSettles(r) ==
    /\ pc[r] = "authorize"
    /\ UNCHANGED db
    /\ \/ Goto(r, "signin", <<"authorize=>user", "callbacks.signin">>, <<>>,
               loc[r])
       \/ Respond(r, 302, AuthorizeFailurePage("null", req[r].providerId),
                  <<"authorize=>null">>, <<>>, loc[r])
       \/ Respond(r, 302, AuthorizeFailurePage("throw", req[r].providerId),
                  <<"authorize=>throw">>, <<>>, loc[r])

(***************************************************************************)
(* The last branch: any other provider type, and a credentials request     *)
(* whose method is not POST                                                 *)
(***************************************************************************)
Unsupported(r) ==
    /\ pc[r] = "start"
    /\ req[r].type \notin { "none", "discourse", "oauth", "email" }
    /\ ~IsCredentialsBranch(req[r].type, req[r].method)
    /\ UNCHANGED db
    /\ Respond(r, 500, NoLocation, <<>>, <<>>, loc[r])

(***************************************************************************)
(* After verification: the signin callback, the user and the session       *)
(***************************************************************************)

\* A check of the response that is the wrong way round.
SigninDenied_Inverted(response) ==
    response = "true"

\* signinCallbackResponse === false
SigninDenied(response) ==
    response = "false"

\* A run that never calls callbackHandler.
AfterSignin_SkipsHandler(type) ==
    "jwt"

\* What the run does once callbacks.signin has allowed the signin: the
\* credentials branch has no callbackHandler call.
AfterSignin(type) ==
    IF type = "credentials" THEN "jwt" ELSE "callbackHandler"

SigninSettles(r) ==
    /\ pc[r] = "signin"
    /\ UNCHANGED db
    /\ \/ \E response \in SigninResponses :
            LET settled == IF response = "true" THEN "signin=>true"
                           ELSE IF response = "false" THEN "signin=>false"
                           ELSE "signin=>undefined"
            IN  IF SigninDenied(response)
                  THEN Respond(r, 302, ErrorPage("AccessDenied"), <<settled>>,
                               <<>>, loc[r])
                ELSE IF AfterSignin(req[r].type) = "jwt"
                  THEN Goto(r, "jwt", <<settled, "callbacks.jwt">>, <<>>, loc[r])
                ELSE Goto(r, "callbackHandler", <<settled, "callbackHandler">>,
                          <<>>, loc[r])
       \/ \E e \in ErrorNames : Throw(r, e, <<"signin=>throw">>)

\* callbackHandler gives { user, session, isNewUser }; then the session is
\* issued as options.session.jwt says.
CallbackHandlerSettles(r) ==
    /\ pc[r] = "callbackHandler"
    /\ UNCHANGED db
    /\ \/ \E isNewUser \in BOOLEAN :
            LET locals == [loc[r] EXCEPT !.isNewUser = isNewUser]
            IN  IF options.useJwtSession
                  THEN Goto(r, "jwt", <<"callbackHandler=>ok", "callbacks.jwt">>,
                            <<>>, locals)
                  ELSE Goto(r, "dispatch",
                            <<"callbackHandler=>ok", "cookie.set:sessionToken",
                              "dispatchEvent">>,
                            <<SessionCookie>>, locals)
       \/ \E e \in ErrorNames : Throw(r, e, <<"callbackHandler=>throw">>)

JwtSettles(r) ==
    /\ pc[r] = "jwt"
    /\ UNCHANGED db
    /\ \/ Goto(r, "encode", <<"jwt=>ok", "jwt.encode">>, <<>>, loc[r])
       \/ \E e \in ErrorNames : Throw(r, e, <<"jwt=>throw">>)

EncodeSettles(r) ==
    /\ pc[r] = "encode"
    /\ UNCHANGED db
    /\ \/ Goto(r, "dispatch",
               <<"encode=>ok", "cookie.set:sessionToken", "dispatchEvent">>,
               <<JwtCookie>>, loc[r])
       \/ \E e \in ErrorNames : Throw(r, e, <<"encode=>throw">>)

\* The redirect of a run that has issued its session. Only the OAuth and
\* email branches look at isNewUser and pages.newUser.
SuccessPage(type, isNewUser, newUser, callbackUrl) ==
    IF type \in {"oauth", "email"} /\ isNewUser /\ newUser THEN NewUserPage
    ELSE IF callbackUrl THEN CallbackUrlPage
    ELSE SitePage

DispatchEventSettles(r) ==
    /\ pc[r] = "dispatch"
    /\ UNCHANGED db
    /\ \/ Respond(r, 302,
                  SuccessPage(req[r].type, loc[r].isNewUser, options.newUser,
                              req[r].callbackUrl),
                  <<"dispatchEvent=>ok">>, <<>>, loc[r])
       \/ \E e \in ErrorNames : Throw(r, e, <<"dispatchEvent=>throw">>)

(***************************************************************************)
(* The specification: one request, of any kind, under any options          *)
(***************************************************************************)
InitRun(requests) ==
    /\ req = requests
    /\ pc = [r \in Reqs |-> IF requests[r] = NoRequest THEN "none" ELSE "start"]
    /\ res = [r \in Reqs |-> NoResponse]
    /\ doneCalls = [r \in Reqs |-> 0]
    /\ log = [r \in Reqs |-> <<>>]
    /\ loc = [r \in Reqs |-> NoLocals]
    /\ initiation = [r \in Reqs |-> NoInitiation]

Init ==
    /\ options \in Options
    /\ db \in { {}, { <<e, "t1">> : e \in Emails } }
    /\ \E q \in Requests : InitRun([r \in Reqs |-> IF r = 1 THEN q ELSE NoRequest])

Next ==
    \E r \in Reqs :
        \/ Discourse(r)
        \/ OAuth(r)
        \/ OAuthCallback(r)
        \/ Email(r)
        \/ GetAdapterSettles(r)
        \/ GetVerificationRequestSettles(r)
        \/ DeleteVerificationRequestSettles(r)
        \/ GetUserByEmailSettles(r)
        \/ Credentials(r)
        \/ AuthorizeSettles(r)
        \/ Unsupported(r)
        \/ SigninSettles(r)
        \/ CallbackHandlerSettles(r)
        \/ JwtSettles(r)
        \/ EncodeSettles(r)
        \/ DispatchEventSettles(r)

Spec ==
    Init /\ [][Next]_vars

(***************************************************************************)
(* What the properties say about a run                                     *)
(***************************************************************************)
Has(r, event) ==
    \E i \in 1..Len(log[r]) : log[r][i] = event

Count(r, event) ==
    Cardinality({ i \in 1..Len(log[r]) : log[r][i] = event })

\* Every occurrence of `later` in the log of r has `earlier` before it.
Precedes(r, earlier, later) ==
    \A i \in 1..Len(log[r]) :
        log[r][i] = later => \E j \in 1..(i - 1) : log[r][j] = earlier

\* The settlements that are failures of a collaborator call.
Failures ==
    { "oAuthCallback=>throw", "getAdapter=>throw", "getVerificationRequest=>throw",
      "deleteVerificationRequest=>throw", "getUserByEmail=>throw",
      "authorize=>throw", "signin=>throw", "callbackHandler=>throw",
      "jwt=>throw", "encode=>throw", "dispatchEvent=>throw" }

\* The run has ended with a 302 and has called done() once.
Redirected(r) ==
    /\ pc[r] = "done"
    /\ res[r].status = 302
    /\ res[r].ended
    /\ doneCalls[r] = 1

RedirectedTo(r, location) ==
    Redirected(r) /\ res[r].location = location

SessionCookieSet(r) ==
    \E i \in 1..Len(res[r].cookies) : res[r].cookies[i].name = "sessionToken"

\* Nothing of the session has happened in the run.
NoSession(r) ==
    /\ ~Has(r, "callbackHandler")
    /\ ~Has(r, "jwt.encode")
    /\ ~Has(r, "cookie.set:sessionToken")
    /\ ~SessionCookieSet(r)
    /\ ~Has(r, "dispatchEvent")

\* The Discourse run has checked the signature, and it matched.
SignatureValid(r) ==
    /\ req[r].type = "discourse"
    /\ loc[r].hash # Undefined
    /\ req[r].sig = loc[r].hash

(***************************************************************************)
(* C1: whatever collaborator call fails during a callback (the signin      *)
(* callback, callbackHandler, the jwt callback, jwt.encode, the event      *)
(* dispatch, the adapter's calls, provider.authorize), the run ends with a *)
(* 302 and done(): no failure leaves the handler uncaught.                  *)
(* The Discourse and the credentials branches await callbacks.signin,      *)
(* callbackHandler, callbacks.jwt, jwt.encode and dispatchEvent outside    *)
(* any try block.                                                           *)
(***************************************************************************)
C1_FailuresEndInRedirect ==
    \A r \in Reqs :
        (\E f \in Failures : Has(r, f)) => Redirected(r)

(***************************************************************************)
(* C2: the fields of the Discourse profile are only decoded from a payload *)
(* whose HMAC under the provider secret is the presented sig: the string   *)
(* that is base64-decoded and parsed is the string the signature was       *)
(* checked over, and nothing is decoded when the signature check failed.   *)
(* The handler checks the signature of decodeURIComponent(sso) and decodes *)
(* sso itself.                                                              *)
(***************************************************************************)
C2_DecodedPayloadIsTheSignedOne ==
    \A r \in Reqs :
        /\ loc[r].inner_qstring # Undefined
             => req[r].sig = Hmac(Secret, loc[r].decoded_sso)
        /\ loc[r].profile # NoProfile
             => loc[r].profile
                  = DiscourseProfile(
                        BufferToUtf8(BufferFromBase64(loc[r].decoded_sso)))

(***************************************************************************)
(* C3: a Discourse callback with a valid signature ends in an error        *)
(* redirect whenever the nonce of the payload is absent or empty, the      *)
(* nonce cookie is absent or empty, or the HMAC of the nonce is not the    *)
(* cookie's value; a session is issued only when both are non-empty and    *)
(* equal.                                                                   *)
(* The handler hashes the nonce before it looks at it (an absent nonce      *)
(* makes hmac.update throw) and tests the hash, never the nonce, for        *)
(* emptiness.                                                               *)
(***************************************************************************)
NonceBindingBad(r) ==
    \/ ~Truthy(loc[r].nonce)
    \/ ~req[r].hasCookies
    \/ ~Truthy(req[r].cookieNonceHash)
    \/ Hmac(Secret, loc[r].nonce) # req[r].cookieNonceHash

C3_BadNonceEndsInError ==
    \A r \in Reqs :
        SignatureValid(r) /\ NonceBindingBad(r) =>
            /\ Redirected(r)
            /\ res[r].location.page = "error"
            /\ NoSession(r)

(***************************************************************************)
(* C4: every Discourse callback that comes to consume the nonce binding    *)
(* (its signature is valid) sets the directive that clears the nonce       *)
(* cookie, whether the nonce matches, does not match, or either side is    *)
(* absent or empty.                                                         *)
(* The handler sets it after hmac.update(ret.nonce) and after reading       *)
(* req.cookies, both of which may throw.                                    *)
(***************************************************************************)
C4_NonceCookieCleared ==
    \A r \in Reqs :
        SignatureValid(r) =>
            \E i \in 1..Len(res[r].cookies) : res[r].cookies[i] = ClearNonceCookie

(***************************************************************************)
(* C5: callbacks.signin is called at most once in a run, never in a run    *)
(* whose verification failed, and before callbackHandler, the session      *)
(* cookie, jwt.encode and the event dispatch of the run.                    *)
(***************************************************************************)
VerificationFailed(r) ==
    \/ /\ req[r].type = "discourse"
       /\ pc[r] # "start"
       /\ \/ MissingQuery(req[r].sso, req[r].sig)
          \/ loc[r].hash = Undefined
          \/ req[r].sig # loc[r].hash
          \/ ~req[r].hasCookies
          \/ ~Truthy(req[r].cookieNonceHash)
          \/ Hmac(Secret, loc[r].nonce) # req[r].cookieNonceHash
          \/ ~Truthy(qsGet(loc[r].inner_qstring, kExternalId))
          \/ ~Truthy(qsGet(loc[r].inner_qstring, kEmail))
          \/ ~Truthy(qsGet(loc[r].inner_qstring, kUsername))
    \/ /\ req[r].type = "oauth"
       /\ \/ Has(r, "oAuthCallback=>throw")
          \/ Has(r, "oAuthCallback=>error")
          \/ Has(r, "oAuthCallback=>noprofile")
    \/ /\ req[r].type = "email"
       /\ \/ ~options.adapter
          \/ Has(r, "getAdapter=>throw")
          \/ Has(r, "getVerificationRequest=>throw")
          \/ Has(r, "getVerificationRequest=>null")
    \/ /\ req[r].type = "credentials"
       /\ \/ req[r].method # "POST"
          \/ ~options.useJwtSession
          \/ ~req[r].authorize
          \/ Has(r, "authorize=>throw")
          \/ Has(r, "authorize=>null")

C5_SigninOnceAfterVerification ==
    \A r \in Reqs :
        /\ Count(r, "callbacks.signin") <= 1
        /\ VerificationFailed(r) => ~Has(r, "callbacks.signin")
        /\ Precedes(r, "callbacks.signin", "callbackHandler")
        /\ Precedes(r, "callbacks.signin", "jwt.encode")
        /\ Precedes(r, "callbacks.signin", "cookie.set:sessionToken")
        /\ Precedes(r, "callbacks.signin", "dispatchEvent")
        /\ SessionCookieSet(r) => Has(r, "callbacks.signin")

\* A Discourse run has called callbacks.signin and gone on to the session
\* cookie and the event dispatch.
C5_Witness ==
    \E r \in Reqs :
        /\ req[r].type = "discourse"
        /\ Has(r, "callbacks.signin")
        /\ Has(r, "callbackHandler")
        /\ Has(r, "jwt.encode")
        /\ SessionCookieSet(r)
        /\ Has(r, "dispatchEvent")

(***************************************************************************)
(* C6: when callbacks.signin denies (it resolves to false), the run ends   *)
(* with a 302 to the AccessDenied error page, and callbackHandler is not   *)
(* called, no session cookie is set, no token is encoded and no signin     *)
(* event is dispatched, whatever the provider's kind.                       *)
(***************************************************************************)
C6_DenyEndsInAccessDenied ==
    \A r \in Reqs :
        Has(r, "signin=>false") =>
            /\ RedirectedTo(r, ErrorPage("AccessDenied"))
            /\ NoSession(r)

\* callbacks.signin has denied in a run of the email branch, after the
\* verification request was found.
C6_Witness ==
    \E r \in Reqs :
        /\ req[r].type = "email"
        /\ Has(r, "signin=>false")
        /\ pc[r] = "done"

(***************************************************************************)
(* C7: in the email branch deleteVerificationRequest is called exactly     *)
(* when getVerificationRequest gave a record, and then before              *)
(* getUserByEmail, callbacks.signin, callbackHandler and the session, so   *)
(* that the record is gone in every run in which a later step denies or    *)
(* fails; when getVerificationRequest gives null the run ends with a 302   *)
(* to the Verification error page and deleteVerificationRequest is not     *)
(* called.                                                                  *)
(***************************************************************************)
LaterStepDeniedOrFailed(r) ==
    \/ Has(r, "getUserByEmail=>throw")
    \/ Has(r, "signin=>false")
    \/ Has(r, "signin=>throw")
    \/ Has(r, "callbackHandler=>throw")
    \/ Has(r, "jwt=>throw")
    \/ Has(r, "encode=>throw")
    \/ Has(r, "dispatchEvent=>throw")

C7_VerificationRequestDeletedFirst ==
    \A r \in Reqs :
        req[r].type = "email" =>
            /\ Has(r, "deleteVerificationRequest")
                 <=> Has(r, "getVerificationRequest=>record")
            /\ Count(r, "deleteVerificationRequest") <= 1
            /\ Precedes(r, "getVerificationRequest=>record",
                        "deleteVerificationRequest")
            /\ Precedes(r, "deleteVerificationRequest", "getUserByEmail")
            /\ Precedes(r, "deleteVerificationRequest", "callbacks.signin")
            /\ Precedes(r, "deleteVerificationRequest", "callbackHandler")
            /\ Precedes(r, "deleteVerificationRequest", "cookie.set:sessionToken")
            /\ LaterStepDeniedOrFailed(r)
                 => <<req[r].email, req[r].token>> \notin db
            /\ Has(r, "getVerificationRequest=>null") =>
                 /\ RedirectedTo(r, ErrorPage("Verification"))
                 /\ ~Has(r, "deleteVerificationRequest")

\* The record was there, it has been deleted, and then callbacks.signin has
\* denied.
C7_Witness ==
    \E r \in Reqs :
        /\ req[r].type = "email"
        /\ Has(r, "getVerificationRequest=>record")
        /\ Has(r, "deleteVerificationRequest=>ok")
        /\ Has(r, "signin=>false")
        /\ <<req[r].email, req[r].token>> \notin db

(***************************************************************************)
(* C8: in the credentials branch, provider.authorize throwing (or          *)
(* rejecting) gives a 302 to the Configuration error page, never the       *)
(* CredentialsSignin one; a null (falsy) result gives a 302 to             *)
(* error?error=CredentialsSignin&provider=<id>, the id url-encoded; in     *)
(* both cases callbacks.signin is not called, no token is encoded and no   *)
(* session cookie is set.                                                   *)
(***************************************************************************)
C8_AuthorizeOutcomes ==
    \A r \in Reqs :
        /\ Has(r, "authorize=>throw") =>
             /\ RedirectedTo(r, ErrorPage("Configuration"))
             /\ ~Has(r, "callbacks.signin")
             /\ NoSession(r)
        /\ Has(r, "authorize=>null") =>
             /\ Redirected(r)
             /\ res[r].location.page = "error"
             /\ res[r].location.error = "CredentialsSignin"
             /\ res[r].location.provider = encodeURIComponent(req[r].providerId)
             /\ ~Has(r, "callbacks.signin")
             /\ NoSession(r)

\* provider.authorize threw in a run, for a provider whose id is not
\* url-safe as it stands.
C8_Witness ==
    \E r \in Reqs :
        /\ Has(r, "authorize=>throw")
        /\ pc[r] = "done"
        /\ encodeURIComponent(req[r].providerId) # req[r].providerId

(***************************************************************************)
(* C9: a credentials callback is rejected with the Configuration error     *)
(* redirect, provider.authorize never called, when options.session.jwt is  *)
(* false or the provider has no authorize; the session check comes before  *)
(* the authorize check.                                                     *)
(* A credentials callback whose method is not POST never comes to these    *)
(* checks: it gets the 500 of the last branch (see C10).                    *)
(***************************************************************************)
CredentialsMisconfigured(r) ==
    /\ req[r].type = "credentials"
    /\ pc[r] # "start"
    /\ ~options.useJwtSession \/ ~req[r].authorize

C9_CredentialsPreconditions ==
    \A r \in Reqs :
        CredentialsMisconfigured(r) =>
            /\ RedirectedTo(r, ErrorPage("Configuration"))
            /\ ~Has(r, "provider.authorize")
            /\ ~options.useJwtSession => Has(r, "CALLBACK_CREDENTIALS_JWT_ERROR")
            /\ ~options.useJwtSession
                 => ~Has(r, "CALLBACK_CREDENTIALS_HANDLER_ERROR")

\* What does hold: the same of the credentials callbacks made with POST.
C9_PostCredentialsPreconditions ==
    \A r \in Reqs :
        CredentialsMisconfigured(r) /\ req[r].method = "POST" =>
            /\ RedirectedTo(r, ErrorPage("Configuration"))
            /\ ~Has(r, "provider.authorize")
            /\ ~options.useJwtSession => Has(r, "CALLBACK_CREDENTIALS_JWT_ERROR")
            /\ ~options.useJwtSession
                 => ~Has(r, "CALLBACK_CREDENTIALS_HANDLER_ERROR")

(***************************************************************************)
(* C10: every run that responds, for each of the four provider kinds and   *)
(* either method, responds with a 302 whose Location is an error page, the *)
(* signin page, the CredentialsSignin error page, the new-user page, the   *)
(* callback URL or the site; a credentials callback whose method is not    *)
(* POST included.                                                           *)
(* The last branch of the handler answers 500 with a text body.            *)
(***************************************************************************)
RedirectPages ==
    { "error", "signin", "newUser", "callbackUrl", "site" }

C10_EveryResponseIsARedirect ==
    \A r \in Reqs :
        /\ req[r].type \in { "discourse", "oauth", "email", "credentials" }
        /\ pc[r] = "done"
        => /\ res[r].status = 302
           /\ res[r].location.page \in RedirectPages

(***************************************************************************)
(* C11: in every branch that calls callbackHandler, its failure is mapped  *)
(* by its kind: an AccountNotLinkedError ends in the account-conflict      *)
(* error redirect, a CreateUserError in the user-creation-failed error     *)
(* redirect, anything else in the redirect to error=Callback.              *)
(* The Discourse branch catches nothing, and the catch block of the email  *)
(* branch knows no AccountNotLinkedError.                                   *)
(***************************************************************************)
AccountConflictCodes ==
    { "OAuthAccountNotLinked" }

UserCreationFailedCodes ==
    { "OAuthCreateAccount", "EmailCreateAccount" }

C11_CallbackHandlerFailureMapped ==
    \A r \in Reqs :
        Has(r, "callbackHandler=>throw") =>
            /\ Redirected(r)
            /\ res[r].location.page = "error"
            /\ loc[r].error = "AccountNotLinkedError"
                 => res[r].location.error \in AccountConflictCodes
            /\ loc[r].error = "CreateUserError"
                 => res[r].location.error \in UserCreationFailedCodes
            /\ loc[r].error \notin { "AccountNotLinkedError", "CreateUserError" }
                 => res[r].location.error = "Callback"

\* What does hold: the same of the OAuth branch, for what callbackHandler
\* throws that is an object.
C11_OAuthCallbackHandlerFailureMapped ==
    \A r \in Reqs :
        /\ req[r].type = "oauth"
        /\ Has(r, "callbackHandler=>throw")
        /\ loc[r].error # "nullish"
        => /\ Redirected(r)
           /\ res[r].location = ErrorPage(OAuthCatchCode(loc[r].error))

(***************************************************************************)
(* C12: in every branch, a run that has issued its session and dispatched  *)
(* the signin event redirects to pages.newUser when the user is new and    *)
(* pages.newUser is configured, and otherwise to the callbackUrl if there  *)
(* is one, else to the site.                                                *)
(* The Discourse branch takes isNewUser from callbackHandler and never     *)
(* looks at pages.newUser.                                                  *)
(***************************************************************************)
ExpectedSuccessPage(r) ==
    IF loc[r].isNewUser /\ options.newUser THEN NewUserPage
    ELSE IF req[r].callbackUrl THEN CallbackUrlPage
    ELSE SitePage

C12_SuccessRedirect ==
    \A r \in Reqs :
        Has(r, "dispatchEvent=>ok") => RedirectedTo(r, ExpectedSuccessPage(r))

\* What does hold: the same of the OAuth, email and credentials branches.
C12_SuccessRedirectButDiscourse ==
    \A r \in Reqs :
        Has(r, "dispatchEvent=>ok") /\ req[r].type # "discourse"
            => RedirectedTo(r, ExpectedSuccessPage(r))

(***************************************************************************)
(* Two Discourse callbacks in flight: each presents the payload Discourse  *)
(* signed for one sign-in, with a signature and a nonce cookie of its own  *)
(* (a client may send the same callback twice). The runs of the handler    *)
(* interleave at their awaits; the handler keeps nothing between requests. *)
(***************************************************************************)
DiscoursePairRequests ==
    { Request("discourse", "GET", FALSE, SsoFull, sig, TRUE, ck, "", "", FALSE, NoId) :
        sig \in SigValues(SsoFull) \ {Undefined},
        ck \in { Undefined, Hmac(Secret, Nonce1),
                 Hmac(Secret, Lit(<<"f","f","f","f">>)) } }

InitDiscoursePair ==
    /\ options \in { o \in Options : ~o.adapter /\ ~o.newUser }
    /\ db = {}
    /\ \E q1 \in DiscoursePairRequests, q2 \in DiscoursePairRequests :
         InitRun([r \in Reqs |-> IF r = 1 THEN q1 ELSE q2])

NextDiscourse ==
    \E r \in Reqs :
        \/ Discourse(r)
        \/ SigninSettles(r)
        \/ CallbackHandlerSettles(r)
        \/ JwtSettles(r)
        \/ EncodeSettles(r)
        \/ DispatchEventSettles(r)

SpecDiscoursePair ==
    InitDiscoursePair /\ [][NextDiscourse]_vars

(***************************************************************************)
(* C13: of any two Discourse runs, one that failed the signature check and *)
(* one that failed the nonce check, the responses (status, Location,       *)
(* cookie directives) are the same, and are the response of the generic    *)
(* error=Callback redirect: which check failed does not show.               *)
(* The run that fails the nonce check has cleared the nonce cookie, the    *)
(* run that fails the signature check has not; both go to                   *)
(* error=oAuthCallback.                                                     *)
(***************************************************************************)
SignatureCheckFailed(r) ==
    /\ req[r].type = "discourse"
    /\ pc[r] = "done"
    /\ loc[r].hash # Undefined
    /\ req[r].sig # loc[r].hash

NonceCheckFailed(r) ==
    /\ SignatureValid(r)
    /\ pc[r] = "done"
    /\ loc[r].nonceHash # Undefined
    /\ NonceCheckFails(req[r].cookieNonceHash, loc[r].nonceHash)

C13_FailuresIndistinguishable ==
    \A r1 \in Reqs, r2 \in Reqs :
        SignatureCheckFailed(r1) /\ NonceCheckFailed(r2) =>
            /\ res[r1].status = res[r2].status
            /\ res[r1].location = res[r2].location
            /\ res[r1].cookies = res[r2].cookies
            /\ res[r1].location = ErrorPage("Callback")

\* What does hold: the two runs have the same status and Location.
C13_SameStatusAndLocation ==
    \A r1 \in Reqs, r2 \in Reqs :
        SignatureCheckFailed(r1) /\ NonceCheckFailed(r2) =>
            /\ res[r1].status = 302
            /\ res[r2].status = 302
            /\ res[r1].location = ErrorPage("oAuthCallback")
            /\ res[r2].location = ErrorPage("oAuthCallback")

\* Both failures have happened, one in each run.
C13_BothFailed ==
    \E r1 \in Reqs, r2 \in Reqs : SignatureCheckFailed(r1) /\ NonceCheckFailed(r2)

(***************************************************************************)
(* C14: in the OAuth branch, an error that oAuthCallback reports ends in a *)
(* 302 to an error page, and a callback with no error and no profile ends  *)
(* in a 302 to the signin page, which is no error page; in both runs       *)
(* callbacks.signin and callbackHandler are not called and no session      *)
(* cookie is set.                                                           *)
(***************************************************************************)
C14_OAuthErrorAndNoProfile ==
    \A r \in Reqs :
        /\ Has(r, "oAuthCallback=>error") =>
             /\ Redirected(r)
             /\ res[r].location.page = "error"
             /\ ~Has(r, "callbacks.signin")
             /\ NoSession(r)
        /\ Has(r, "oAuthCallback=>noprofile") =>
             /\ RedirectedTo(r, SigninPage)
             /\ res[r].location.page # "error"
             /\ ~Has(r, "callbacks.signin")
             /\ NoSession(r)

\* oAuthCallback has called back with neither an error nor a profile, and the
\* run has responded.
C14_Witness ==
    \E r \in Reqs :
        /\ req[r].type = "oauth"
        /\ Has(r, "oAuthCallback=>noprofile")
        /\ pc[r] = "done"
        /\ res[r].ended

(***************************************************************************)
(* The SSO initiation, and its redirect coming back as a callback          *)
(***************************************************************************)

\* The nonces crypto.randomBytes(..).toString('hex') may give (shortened),
\* and the callback URLs and secrets of the provider.
Nonces ==
    { Lit(<<"a","b","c","1","2","3">>), Lit(<<"0","f">>), Lit(<<"9","e","7">>) }

CallbackUrls ==
    { Lit(<<"h","t","t","p","s",":","/","/","a",".","i","o","/","c","b">>),
      Lit(<<"h","t","t","p",":","/","/","l","o","c","a","l","h","o","s","t",":","3","0","0","0","/","a","p","i","/","a","u","t","h","/","c","a","l","l","b","a","c","k","/","d","i","s","c","o","u","r","s","e">>),
      Lit(<<"h","t","t","p","s",":","/","/","a",".","i","o","/","c","b","?","x","=","1","+","2">>) }

Secrets ==
    { Secret, OtherKey }

\* "nonce="+nonce+"&return_sso_url="+callbackUrl
SsoPayload(nonce, callbackUrl) ==
    Lit(<<"n","o","n","c","e","=">>) \o nonce
        \o Lit(<<"&","r","e","t","u","r","n","_","s","s","o","_","u","r","l","=">>)
        \o callbackUrl

\* An initiation that signs the payload, not its base64.
SsoInitiation_SignsPayload(secret, callbackUrl, nonce) ==
    [ secret |-> secret, callbackUrl |-> callbackUrl, nonce |-> nonce,
      payload_b64 |-> BufferToBase64(SsoPayload(nonce, callbackUrl)),
      hex_sig |-> Hmac(secret, SsoPayload(nonce, callbackUrl)),
      urlenc_payload_b64 |->
          encodeURIComponent(BufferToBase64(SsoPayload(nonce, callbackUrl))),
      nonceHash |-> Hmac(secret, nonce) ]

\* What the initiation makes of the provider's secret and callbackUrl and of
\* the nonce it has drawn.
SsoInitiation(secret, callbackUrl, nonce) ==
    LET payload == SsoPayload(nonce, callbackUrl)
        payload_b64 == BufferToBase64(payload)
        hex_sig == Hmac(secret, payload_b64)
        urlenc_payload_b64 == encodeURIComponent(payload_b64)
        nonceHash == Hmac(secret, nonce)
    IN  [ secret |-> secret, callbackUrl |-> callbackUrl, nonce |-> nonce,
          payload_b64 |-> payload_b64, hex_sig |-> hex_sig,
          urlenc_payload_b64 |-> urlenc_payload_b64, nonceHash |-> nonceHash ]

\* crypto.randomBytes calls back: with an error there is no buf, and
\* buf.toString throws after the error is logged; otherwise the initiation
\* hands nonceHash and url_redirect to its callback.
Initiate(r) ==
    /\ pc[r] = "initiate"
    /\ UNCHANGED db
    /\ \/ Goto(r, "rejected", <<"logger.error">>, <<>>, loc[r])
       \/ \E nonce \in Nonces :
            /\ initiation' = [initiation EXCEPT ![r] =
                                 SsoInitiation(@.secret, @.callbackUrl, nonce)]
            /\ pc' = [pc EXCEPT ![r] = "redirected"]
            /\ UNCHANGED << options, req, res, doneCalls, log, loc >>

\* s with the character at i replaced by another one.
ChangeAt(s, i) ==
    [s EXCEPT ![i] = IF @ = 65 THEN 66 ELSE 65]

\* What may come back as the sso and sig of a callback: the query parameters
\* of url_redirect as the query string parser reads them, or these with a
\* character of the payload or of the signature changed.
ReturnedQueries(made) ==
    LET sso == qsUnescape(made.urlenc_payload_b64)
        sig == qsUnescape(made.hex_sig)
    IN  { <<sso, sig>>, <<ChangeAt(sso, 1), sig>>, <<ChangeAt(sso, Len(sso) - 2), sig>>,
          <<sso, ChangeAt(sig, Len(sig))>> }

\* The callback request that answers the redirect: it carries the cookie the
\* initiation's nonceHash was put in.
Return(r) ==
    /\ pc[r] = "redirected"
    /\ \E q \in ReturnedQueries(initiation[r]) :
         req' = [req EXCEPT ![r] =
                    Request("discourse", "GET", FALSE, q[1], q[2], TRUE,
                            initiation[r].nonceHash, "", "", FALSE, NoId)]
    /\ pc' = [pc EXCEPT ![r] = "start"]
    /\ UNCHANGED << options, db, res, doneCalls, log, loc, initiation >>

InitRoundTrip ==
    /\ options = [ useJwtSession |-> TRUE, adapter |-> FALSE, newUser |-> FALSE ]
    /\ db = {}
    /\ req = [r \in Reqs |-> NoRequest]
    /\ pc = [r \in Reqs |-> IF r = 1 THEN "initiate" ELSE "none"]
    /\ res = [r \in Reqs |-> NoResponse]
    /\ doneCalls = [r \in Reqs |-> 0]
    /\ log = [r \in Reqs |-> <<>>]
    /\ loc = [r \in Reqs |-> NoLocals]
    /\ \E secret \in Secrets, callbackUrl \in CallbackUrls :
         initiation = [r \in Reqs |->
                         IF r = 1
                           THEN [NoInitiation EXCEPT !.secret = secret,
                                                     !.callbackUrl = callbackUrl]
                           ELSE NoInitiation]

NextRoundTrip ==
    \E r \in Reqs :
        \/ Initiate(r)
        \/ Return(r)
        \/ Discourse(r)

SpecRoundTrip ==
    InitRoundTrip /\ [][NextRoundTrip]_vars


(***************************************************************************)
(* C15: what the SSO initiation makes passes the callback's signature      *)
(* check under the same secret, the nonce the callback decodes from the    *)
(* payload is the nonce the initiation drew, and the HMAC of that nonce is *)
(* the nonceHash the initiation handed out for the cookie; under another   *)
(* secret, or with a character of the payload or of the signature changed, *)
(* the signature check fails.                                               *)
(***************************************************************************)
Untouched(r) ==
    /\ initiation[r].secret = Secret
    /\ req[r].sso = initiation[r].payload_b64
    /\ req[r].sig = initiation[r].hex_sig

C16_DispatchFailureKeepsRedirect ==
    \A r \in Reqs :
        Has(r, "dispatchEvent=>throw") =>
            RedirectedTo(r, SuccessPage(req[r].type, loc[r].isNewUser,
                                        options.newUser, req[r].callbackUrl))

(***************************************************************************)
(* C17: the session cookie is set at most once in a run, and only in runs  *)
(* that end in a success redirect: no run that ends in a redirect to an    *)
(* error page or to the signin page has set the session cookie or encoded  *)
(* a token.                                                                 *)
(* In the OAuth and email branches the cookie is set before dispatchEvent  *)
(* is awaited, inside the try block whose catch redirects to an error page. *)
(***************************************************************************)
C17_SessionCookieOnlyOnSuccess ==
    \A r \in Reqs :
        /\ Count(r, "cookie.set:sessionToken") <= 1
        /\ Cardinality({ i \in 1..Len(res[r].cookies) :
                           res[r].cookies[i].name = "sessionToken" }) <= 1
        /\ pc[r] = "done" /\ res[r].location.page \in { "error", "signin" } =>
             /\ ~SessionCookieSet(r)
             /\ ~Has(r, "encode=>ok")

\* What does hold: the same of the runs in which dispatchEvent has not thrown.
C17_SessionCookieOnlyOnSuccessButDispatch ==
    \A r \in Reqs :
        /\ Count(r, "cookie.set:sessionToken") <= 1
        /\ /\ pc[r] = "done"
           /\ res[r].location.page \in { "error", "signin" }
           /\ ~Has(r, "dispatchEvent=>throw")
           => /\ ~SessionCookieSet(r)
              /\ ~Has(r, "encode=>ok")

(***************************************************************************)
(* C18: in every run that succeeds, of every branch, the steps come in the *)
(* order verification, callbacks.signin, the resolution of user and        *)
(* session, the session cookie, the dispatch of the signin event, the      *)
(* redirect; the session cookie is set when the redirect (to the new-user  *)
(* page or not) is decided, and no step is entered twice in a run.          *)
(***************************************************************************)
Steps ==
    { "callbacks.signin", "callbackHandler", "callbacks.jwt", "jwt.encode",
      "cookie.set:sessionToken", "dispatchEvent" }

\* The event that ends the verification of each branch.
Verified(type) ==
    IF type = "discourse" THEN "cookie.set:nonceHash"
    ELSE IF type = "oauth" THEN "oAuthCallback=>profile"
    ELSE IF type = "email" THEN "deleteVerificationRequest=>ok"
    ELSE "authorize=>user"

\* The call that resolves the user (and the session) in each branch.
Resolution(type) ==
    IF type = "credentials" THEN "callbacks.jwt" ELSE "callbackHandler"

\* Where the event is in the log of r (0 when it is not there).
Pos(r, event) ==
    IF Has(r, event) THEN CHOOSE i \in 1..Len(log[r]) : log[r][i] = event ELSE 0

Succeeded(r) ==
    /\ pc[r] = "done"
    /\ res[r].location.page \in { "newUser", "callbackUrl", "site" }

C18_StepsInOrder ==
    \A r \in Reqs :
        /\ \A step \in Steps : Count(r, step) <= 1
        /\ Succeeded(r) =>
             /\ 0 < Pos(r, Verified(req[r].type))
             /\ Pos(r, Verified(req[r].type)) < Pos(r, "callbacks.signin")
             /\ Pos(r, "callbacks.signin") < Pos(r, Resolution(req[r].type))
             /\ Pos(r, Resolution(req[r].type)) < Pos(r, "cookie.set:sessionToken")
             /\ Pos(r, "cookie.set:sessionToken") < Pos(r, "dispatchEvent")
             /\ Pos(r, "dispatchEvent") < Len(log[r])
             /\ log[r][Len(log[r])] = "dispatchEvent=>ok"
             /\ SessionCookieSet(r)
             /\ res[r].status = 302
             /\ doneCalls[r] = 1

\* An email run has succeeded with the redirect to the new-user page.
C18_Witness ==
    \E r \in Reqs :
        /\ req[r].type = "email"
        /\ Succeeded(r)
        /\ res[r].location = NewUserPage
        /\ SessionCookieSet(r)

(***************************************************************************)
(* Two email callbacks in flight that present the same email and token,    *)
(* for which the adapter holds one verification request.                    *)
(***************************************************************************)
InitEmailPair ==
    /\ options \in { o \in Options : o.adapter /\ ~o.newUser }
    /\ \E e \in Emails :
         /\ db = { <<e, "t1">> }
         /\ InitRun([r \in Reqs |->
                       Request("email", "GET", FALSE, Undefined, Undefined, TRUE,
                               Undefined, e, "t1", FALSE, NoId)])

NextEmail ==
    \E r \in Reqs :
        \/ Email(r)
        \/ GetAdapterSettles(r)
        \/ GetVerificationRequestSettles(r)
        \/ DeleteVerificationRequestSettles(r)
        \/ GetUserByEmailSettles(r)
        \/ SigninSettles(r)
        \/ CallbackHandlerSettles(r)
        \/ JwtSettles(r)
        \/ EncodeSettles(r)
        \/ DispatchEventSettles(r)

SpecEmailPair ==
    InitEmailPair /\ [][NextEmail]_vars

(***************************************************************************)
(* C19: an email verification token is used once, however the callbacks    *)
(* that present it interleave: of the requests with the same email and     *)
(* token at most one gets past the verification to callbacks.signin and    *)
(* the session.                                                             *)
(* The handler awaits getVerificationRequest and then                      *)
(* deleteVerificationRequest: a second request may read the record between *)
(* the two.                                                                 *)
(***************************************************************************)
PastVerification(r) ==
    req[r].type = "email" /\ Has(r, "callbacks.signin")

C19_TokenSingleUse ==
    \A r1 \in Reqs, r2 \in Reqs :
        /\ r1 # r2
        /\ req[r1].email = req[r2].email
        /\ req[r1].token = req[r2].token
        => ~(PastVerification(r1) /\ PastVerification(r2))

\* What does hold: a request that asks for the record after another one's
\* deleteVerificationRequest has settled does not get it.
C19_NoRecordAfterDelete ==
    \A r1 \in Reqs, r2 \in Reqs :
        /\ r1 # r2
        /\ Has(r1, "deleteVerificationRequest=>ok")
        /\ pc[r2] \in { "start", "getAdapter", "getVerificationRequest" }
        => <<req[r2].email, req[r2].token>> \notin db

(***************************************************************************)
(* C20: the nonce is consumed atomically with its binding: of the Discourse *)
(* callbacks that present the same signed payload and the same nonce       *)
(* cookie, however they interleave, at most one passes the nonce check and *)
(* is issued a session.                                                     *)
(* The binding is the cookie the request carries, and the handler clears   *)
(* it by a directive on its response: it keeps nothing that a second       *)
(* request with the same cookie is checked against.                         *)
(***************************************************************************)
SameCallback(r1, r2) ==
    /\ req[r1].type = "discourse"
    /\ req[r2].type = "discourse"
    /\ req[r1].sso = req[r2].sso
    /\ req[r1].sig = req[r2].sig
    /\ req[r1].cookieNonceHash = req[r2].cookieNonceHash

PassedNonceCheck(r) ==
    /\ SignatureValid(r)
    /\ loc[r].nonceHash # Undefined
    /\ ~NonceCheckFails(loc[r].cookieNonceHash, loc[r].nonceHash)
    /\ Has(r, "cookie.set:nonceHash")

C20_NonceConsumedOnce ==
    \A r1 \in Reqs, r2 \in Reqs :
        r1 # r2 /\ SameCallback(r1, r2) =>
            ~(/\ PassedNonceCheck(r1) /\ SessionCookieSet(r1)
              /\ PassedNonceCheck(r2) /\ SessionCookieSet(r2))

=============================================================================
